---- MODULE Spec2Model ----
\* Model of benchmarks/mocklib/mocklib.c: the growable byte buffer
\* (the mock_buffer functions) and the parser built on it (the mock_parser
\* functions).
\*
\* Every API function is one operator computing the function's result and
\* the new object from the old object and the arguments, and one action
\* applying it to the handle the caller holds.  malloc/realloc may fail at
\* any call (the ok... parameters) and always fail above MaxAlloc.
EXTENDS Integers, Sequences, FiniteSets, TLC

\* ---------------------------------------------------------------- bounds
SizeBits == 4        \* width of size_t in the model
MaxAlloc == 6        \* largest block malloc/realloc can ever return
MaxCount == 2        \* longest byte span a caller passes to append
MaxInput == 2        \* longest byte span a caller passes to parse/validate
MaxTally == 2        \* the count of successful parses saturates here

SIZE_MOD == 2 ^ SizeBits                 \* size_t arithmetic is modulo this

\* bytes callers append to a buffer (content is opaque to the buffer)
BufBytes == {0, 120}
\* bytes callers hand to the parser: one below the printable range, a
\* lowercase letter, the last printable byte, and one with the high bit set
InputBytes == {31, 97, 126, 200}

\* bytes on both sides of each bound of the printable test, and one above 127
ValidateBytes == {31, 32, 126, 127, 200}

\* ---------------------------------------------------------------- memory
U == -1                                  \* an indeterminate (never written) byte

Null == [null |-> TRUE, bytes |-> <<>>]          \* the NULL pointer
Mem(s) == [null |-> FALSE, bytes |-> s]          \* pointer to the bytes s

\* The allocator calls a handler can make.  Every handler returns at its
\* first failed allocation, so one call sees at most one failure: fail names
\* the allocation that returns NULL in this call ("none": every one succeeds).
AllocPoints == {"parser", "struct", "data", "realloc", "out"}

\* malloc(n) / realloc(p, n) at allocation point pt returns non-null
AllocOk(n, pt, fail) == fail # pt /\ n <= MaxAlloc

\* realloc(d, n): the first min(old, new) bytes are kept
Realloc(d, n) == [i \in 1..n |-> IF i <= Len(d) THEN d[i] ELSE U]

\* What a handler asks of the allocator, in order: op is "malloc", "free" or
\* "realloc", blk names the pointer variable that holds the block.
Ev(op, blk) == [op |-> op, blk |-> blk]

\* the blocks of the transient buffer of mock_parser_parse are not the blocks
\* of a buffer the caller holds
TransientName(blk) ==
    IF blk = "struct" THEN "t_struct"
    ELSE IF blk = "data" THEN "t_data"
    ELSE blk

Transient(evs) == [i \in 1..Len(evs) |-> Ev(evs[i].op, TransientName(evs[i].blk))]

\* the heap with no block allocated; live: the blocks allocated and not yet
\* freed; bad: a block was freed or reallocated that was not live; lost: a
\* pointer to a live block was overwritten by a new allocation
EmptyHeap == [live |-> {}, bad |-> FALSE, lost |-> FALSE]

\* the heap after the allocator calls evs
RECURSIVE replay(_, _)
replay(h, evs) ==
    IF evs = <<>> THEN h
    ELSE LET e == Head(evs)
             h1 == IF e.op = "malloc"
                   THEN IF e.blk \in h.live
                        THEN [h EXCEPT !.lost = TRUE]
                        ELSE [h EXCEPT !.live = @ \cup {e.blk}]
                   ELSE IF e.blk \notin h.live
                   THEN [h EXCEPT !.bad = TRUE]
                   ELSE IF e.op = "free"
                   THEN [h EXCEPT !.live = @ \ {e.blk}]
                   ELSE h
         IN  replay(h1, Tail(evs))

\* the byte sequences over S of length at most n
SeqsUpTo(S, n) == UNION {[1..k -> S] : k \in 0..n}

VARIABLES
    buffer,       \* the mock_buffer_t the caller holds (alloc = FALSE: no handle)
    parser,       \* the mock_parser_t the caller holds (alloc = FALSE: no handle)
    written,      \* bytes of the successful appends to buffer since its creation
    parsed_ok,    \* successful parses on parser since its creation (saturating)
    heap,         \* the blocks the allocator has handed out
    last,         \* the most recent API call: its arguments and what it returned
    fate,         \* "running", or how the process ended: "crashed", "hung"
    char_signed   \* whether plain char is signed in this build

vars == <<buffer, parser, written, parsed_ok, heap, last, fate, char_signed>>

\* ---------------------------------------------------------------- objects
NoBuffer == [alloc |-> FALSE, data |-> <<>>, size |-> 0, capacity |-> 0]
NoParser == [alloc |-> FALSE, state |-> 0, input |-> Null, input_size |-> 0,
             error_code |-> 0]

\* op: the function called; data, size: its pointer and size_t arguments;
\* ret: its int result (1/0 for a handle/NULL); view: the pointer get_data
\* returned; before: the caller's buffer when the call was made; oob: the
\* call wrote outside a block; nomem: an allocation failed in the call;
\* created/destroyed/resized: buffers created, destroyed, reallocations asked
NoCall == [op |-> "none", data |-> Null, size |-> 0, ret |-> 0, view |-> Null,
           before |-> NoBuffer, oob |-> FALSE, nomem |-> FALSE,
           created |-> 0, destroyed |-> 0, resized |-> 0]

\* ---------------------------------------------------------------- buffer
\* mock_buffer_create: buf is the new object (alloc = FALSE for NULL); oob
\* tells that data[0] = '\0' was written past the end of a zero-byte block.
mock_buffer_create(initial_capacity, fail) ==
    IF ~AllocOk(0, "struct", fail)
    THEN [buf |-> NoBuffer, oob |-> FALSE, nomem |-> TRUE, ev |-> <<>>]
    ELSE IF ~AllocOk(initial_capacity, "data", fail)
    THEN [buf |-> NoBuffer, oob |-> FALSE, nomem |-> TRUE,
          ev |-> <<Ev("malloc", "struct"), Ev("free", "struct")>>]
    ELSE [buf |-> [alloc |-> TRUE,
                   data |-> [i \in 1..initial_capacity |-> IF i = 1 THEN 0 ELSE U],
                   size |-> 0,
                   capacity |-> initial_capacity],
          oob |-> (initial_capacity = 0),
          nomem |-> FALSE,
          ev |-> <<Ev("malloc", "struct"), Ev("malloc", "data")>>]

\* mutant: the size check lets a capacity equal to the length through
mock_buffer_resize_strict(b, new_capacity, fail) ==
    IF ~b.alloc \/ new_capacity < b.size
    THEN [ret |-> -1, buf |-> b, nomem |-> FALSE, ev |-> <<>>]
    ELSE IF ~AllocOk(new_capacity, "realloc", fail)
    THEN [ret |-> -1, buf |-> b, nomem |-> TRUE, ev |-> <<>>]
    ELSE [ret |-> 0,
          buf |-> [b EXCEPT !.data = Realloc(b.data, new_capacity),
                            !.capacity = new_capacity],
          nomem |-> FALSE,
          ev |-> <<Ev("realloc", "data")>>]

\* mutant: a request below the current capacity is accepted and ignored
mock_buffer_resize_grow_only(b, new_capacity, fail) ==
    IF ~b.alloc \/ new_capacity <= b.size
    THEN [ret |-> -1, buf |-> b, nomem |-> FALSE, ev |-> <<>>]
    ELSE IF new_capacity <= b.capacity
    THEN [ret |-> 0, buf |-> b, nomem |-> FALSE, ev |-> <<>>]
    ELSE IF ~AllocOk(new_capacity, "realloc", fail)
    THEN [ret |-> -1, buf |-> b, nomem |-> TRUE, ev |-> <<>>]
    ELSE [ret |-> 0,
          buf |-> [b EXCEPT !.data = Realloc(b.data, new_capacity),
                            !.capacity = new_capacity],
          nomem |-> FALSE,
          ev |-> <<Ev("realloc", "data")>>]

\* mutant: the capacity is recorded before realloc is known to have succeeded
mock_buffer_resize_early_capacity(b, new_capacity, fail) ==
    IF ~b.alloc \/ new_capacity <= b.size
    THEN [ret |-> -1, buf |-> b, nomem |-> FALSE, ev |-> <<>>]
    ELSE IF ~AllocOk(new_capacity, "realloc", fail)
    THEN [ret |-> -1, buf |-> [b EXCEPT !.capacity = new_capacity],
          nomem |-> TRUE, ev |-> <<>>]
    ELSE [ret |-> 0,
          buf |-> [b EXCEPT !.data = Realloc(b.data, new_capacity),
                            !.capacity = new_capacity],
          nomem |-> FALSE,
          ev |-> <<Ev("realloc", "data")>>]

mock_buffer_resize(b, new_capacity, fail) ==
    IF ~b.alloc \/ new_capacity <= b.size
    THEN [ret |-> -1, buf |-> b, nomem |-> FALSE, ev |-> <<>>]
    ELSE IF ~AllocOk(new_capacity, "realloc", fail)
    THEN [ret |-> -1, buf |-> b, nomem |-> TRUE, ev |-> <<>>]
    ELSE [ret |-> 0,
          buf |-> [b EXCEPT !.data = Realloc(b.data, new_capacity),
                            !.capacity = new_capacity],
          nomem |-> FALSE,
          ev |-> <<Ev("realloc", "data")>>]

Diverges == -2     \* the doubling loop never exits / the call never returns

\* mutant: the loop goes on while new_capacity is not above the need
RECURSIVE grow_loop_until_above(_, _)
grow_loop_until_above(new_capacity, need) ==
    IF ~(new_capacity <= need) THEN new_capacity
    ELSE IF new_capacity = 0 THEN Diverges
    ELSE grow_loop_until_above((new_capacity * 2) % SIZE_MOD, need)

\* the while loop of mock_buffer_append, from the value new_capacity holds
RECURSIVE grow_loop(_, _)
grow_loop(new_capacity, need) ==
    IF ~(new_capacity < need) THEN new_capacity
    ELSE IF new_capacity = 0 THEN Diverges          \* 0 * 2 = 0, for ever
    ELSE grow_loop((new_capacity * 2) % SIZE_MOD, need)

\* mutant: memcpy(data, src, n), the copy lands at the start of the storage
store_at_start(b, src, n) ==
    [buf |-> [b EXCEPT
                !.data = [i \in 1..Len(b.data) |->
                            IF i <= n THEN src[i]
                            ELSE IF i = b.size + n + 1 THEN 0
                            ELSE b.data[i]],
                !.size = (b.size + n) % SIZE_MOD],
     oob |-> (b.size + n + 1 > Len(b.data))]

\* memcpy(data + size, src, n); size += n; data[size] = '\0'
store(b, src, n) ==
    [buf |-> [b EXCEPT
                !.data = [i \in 1..Len(b.data) |->
                            IF i > b.size /\ i <= b.size + n THEN src[i - b.size]
                            ELSE IF i = b.size + n + 1 THEN 0
                            ELSE b.data[i]],
                !.size = (b.size + n) % SIZE_MOD],
     oob |-> (b.size + n + 1 > Len(b.data))]

\* mock_buffer_append: ret is -1 or 0, or Diverges when the doubling loop
\* never exits
mock_buffer_append(b, data, size, fail) ==
    IF ~b.alloc \/ data.null \/ size = 0
    THEN [ret |-> -1, buf |-> b, oob |-> FALSE, nomem |-> FALSE, resized |-> 0,
          ev |-> <<>>]
    ELSE
      LET need == (b.size + size + 1) % SIZE_MOD
      IN  IF need > b.capacity
          THEN LET new_capacity == grow_loop((b.capacity * 2) % SIZE_MOD, need)
               IN  IF new_capacity = Diverges
                   THEN [ret |-> Diverges, buf |-> b, oob |-> FALSE,
                         nomem |-> FALSE, resized |-> 0, ev |-> <<>>]
                   ELSE LET r == mock_buffer_resize(b, new_capacity, fail)
                        IN  IF r.ret # 0
                            THEN [ret |-> -1, buf |-> r.buf, oob |-> FALSE,
                                  nomem |-> r.nomem, resized |-> 1,
                                  ev |-> r.ev]
                            ELSE LET s == store(r.buf, data.bytes, size)
                                 IN  [ret |-> 0, buf |-> s.buf, oob |-> s.oob,
                                      nomem |-> FALSE, resized |-> 1,
                                      ev |-> r.ev]
          ELSE LET s == store(b, data.bytes, size)
               IN  [ret |-> 0, buf |-> s.buf, oob |-> s.oob, nomem |-> FALSE,
                    resized |-> 0, ev |-> <<>>]

\* mutant: the storage is not freed, only the struct
mock_buffer_destroy_struct_only(b) ==
    IF ~b.alloc THEN <<>>
    ELSE <<Ev("free", "struct")>>

\* mock_buffer_destroy: the allocator calls it makes (data is never NULL in
\* a buffer that mock_buffer_create returned)
mock_buffer_destroy(b) ==
    IF ~b.alloc THEN <<>>
    ELSE <<Ev("free", "data"), Ev("free", "struct")>>

mock_buffer_get_data(b) ==
    IF ~b.alloc THEN Null ELSE Mem(b.data)

\* how the process goes on after a handler: an out-of-bounds write is
\* undefined behaviour (it may pass unnoticed or abort the process), a loop
\* that never exits hangs it
Outcomes(oob, ret) ==
    IF ret = Diverges THEN {"hung"}
    ELSE IF oob THEN {"running", "crashed"}
    ELSE {"running"}

\* the (pointer, size) pairs a caller passes: NULL with any size, a readable
\* span with its length, or some readable span with size 0
SpanArgs(Bytes, max) ==
    {[data |-> Null, size |-> n] : n \in 0..max}
    \cup {[data |-> Mem(s), size |-> Len(s)] : s \in SeqsUpTo(Bytes, max)}
    \cup {[data |-> Mem(s), size |-> 0] : s \in SeqsUpTo(Bytes, 1)}

AppendArgs == SpanArgs(BufBytes, MaxCount)
ParseArgs == SpanArgs(InputBytes, MaxInput)
ValidateArgs == SpanArgs(ValidateBytes, MaxInput)

\* ---------------------------------------------------------------- actions
BufferCreate ==
    /\ fate = "running"
    /\ ~buffer.alloc
    /\ \E c \in 0..(MaxAlloc + 1), fail \in {"none", "struct", "data"} :
         \E r \in {mock_buffer_create(c, fail)} :
             /\ buffer' = r.buf
             /\ written' = <<>>
             /\ last' = [NoCall EXCEPT !.op = "buffer_create", !.size = c,
                                       !.ret = IF r.buf.alloc THEN 1 ELSE 0,
                                       !.before = buffer,
                                       !.oob = r.oob, !.nomem = r.nomem,
                                       !.created = IF r.buf.alloc THEN 1 ELSE 0]
             /\ heap' = replay(heap, r.ev)
             /\ fate' \in Outcomes(r.oob, 0)
    /\ UNCHANGED <<parser, parsed_ok, char_signed>>

BufferAppend ==
    /\ fate = "running"
    /\ \E a \in AppendArgs, fail \in {"none", "realloc"} :
            \E r \in {mock_buffer_append(buffer, a.data, a.size, fail)} :
                /\ buffer' = r.buf
                /\ written' = IF r.ret = 0
                              THEN written \o SubSeq(a.data.bytes, 1, a.size)
                              ELSE written
                /\ last' = [NoCall EXCEPT !.op = "buffer_append", !.data = a.data,
                                          !.size = a.size, !.ret = r.ret,
                                          !.before = buffer,
                                          !.oob = r.oob, !.nomem = r.nomem,
                                          !.resized = r.resized]
                /\ heap' = replay(heap, r.ev)
                /\ fate' \in Outcomes(r.oob, r.ret)
    /\ UNCHANGED <<parser, parsed_ok, char_signed>>

BufferResize ==
    /\ fate = "running"
    /\ \E n \in 0..(MaxAlloc + 1), fail \in {"none", "realloc"} :
         \E r \in {mock_buffer_resize(buffer, n, fail)} :
             /\ buffer' = r.buf
             /\ last' = [NoCall EXCEPT !.op = "buffer_resize", !.size = n,
                                       !.ret = r.ret, !.before = buffer,
                                       !.nomem = r.nomem]
             /\ heap' = replay(heap, r.ev)
    /\ UNCHANGED <<parser, parsed_ok, written, fate, char_signed>>

BufferGetData ==
    /\ fate = "running"
    /\ last' = [NoCall EXCEPT !.op = "buffer_get_data", !.before = buffer,
                              !.view = mock_buffer_get_data(buffer)]
    /\ UNCHANGED <<buffer, parser, written, parsed_ok, heap, fate, char_signed>>

\* mock_buffer_destroy: frees data and the struct; the caller's handle is dead
BufferDestroy ==
    /\ fate = "running"
    /\ buffer' = NoBuffer
    /\ written' = <<>>
    /\ last' = [NoCall EXCEPT !.op = "buffer_destroy", !.before = buffer,
                              !.destroyed = IF buffer.alloc THEN 1 ELSE 0]
    /\ heap' = replay(heap, mock_buffer_destroy(buffer))
    /\ UNCHANGED <<parser, parsed_ok, fate, char_signed>>

\* ---------------------------------------------------------------- parser
\* the value of a plain char holding byte b
CharVal(b) == IF char_signed /\ b >= 128 THEN b - 256 ELSE b

\* mutant: the loop checks only the lower end of the printable range
RECURSIVE validate_loop_lower_only(_, _, _)
validate_loop_lower_only(bytes, i, size) ==
    IF ~(i < size) THEN 1
    ELSE IF CharVal(bytes[i + 1]) < 32 THEN 0
    ELSE validate_loop_lower_only(bytes, i + 1, size)

\* the for loop of mock_validate_input, from index i (0-based)
RECURSIVE validate_loop(_, _, _)
validate_loop(bytes, i, size) ==
    IF ~(i < size) THEN 1
    ELSE IF CharVal(bytes[i + 1]) < 32 \/ CharVal(bytes[i + 1]) > 126 THEN 0
    ELSE validate_loop(bytes, i + 1, size)

\* mutant: the size is not looked at before the loop
mock_validate_input_any_size(input, size) ==
    IF input.null THEN 0
    ELSE validate_loop(input.bytes, 0, size)

mock_validate_input(input, size) ==
    IF input.null \/ size = 0 THEN 0
    ELSE validate_loop(input.bytes, 0, size)

\* mutant: the lower bound of the letter test is off by one
process_char_above_a(b) ==
    IF CharVal(b) > 97 /\ CharVal(b) <= 122
    THEN (CharVal(b) - 97 + 65) % 256
    ELSE b

\* processed_char of mock_parser_parse for input byte b
process_char(b) ==
    IF CharVal(b) >= 97 /\ CharVal(b) <= 122
    THEN (CharVal(b) - 97 + 65) % 256
    ELSE b

\* the for loop of mock_parser_parse, from index i (0-based); acc is the
\* transient buffer so far with what the appends did to the process
RECURSIVE parse_loop(_, _, _, _, _)
parse_loop(acc, bytes, i, size, fail) ==
    IF ~(i < size) THEN acc
    ELSE LET a == mock_buffer_append(acc.buf, Mem(<<process_char(bytes[i + 1])>>),
                                     1, fail)
             n == [ret |-> a.ret, buf |-> a.buf, oob |-> acc.oob \/ a.oob,
                   nomem |-> a.nomem, resized |-> acc.resized + a.resized,
                   ev |-> acc.ev \o a.ev]
         IN  IF a.ret # 0 THEN n
             ELSE parse_loop(n, bytes, i + 1, size, fail)

\* mutant: the argument check forgets the size
parse_bad_args_no_size(p, input, size) == ~p.alloc \/ input.null

\* mutant: the new bytes are added to the output already stored
store_output_accumulate(p, b) ==
    LET old == IF p.input.null THEN <<>>
               ELSE SubSeq(p.input.bytes, 1, p.input_size)
    IN  [p EXCEPT !.input = Mem(old \o SubSeq(mock_buffer_get_data(b).bytes,
                                              1, b.size) \o <<0>>),
                  !.input_size = p.input_size + b.size,
                  !.state = 1]

\* mutant: the successful end forgets to set the state
store_output_keeps_state(p, b) ==
    [p EXCEPT !.input = Mem(SubSeq(mock_buffer_get_data(b).bytes, 1, b.size)
                            \o <<0>>),
              !.input_size = b.size]

\* mutant: the successful end clears the error code
store_output_clears_error(p, b) ==
    [p EXCEPT !.input = Mem(SubSeq(mock_buffer_get_data(b).bytes, 1, b.size)
                            \o <<0>>),
              !.input_size = b.size,
              !.state = 1,
              !.error_code = 0]

\* the argument check that opens mock_parser_parse
parse_bad_args(p, input, size) == ~p.alloc \/ input.null \/ size = 0

\* the end of a successful mock_parser_parse: the parser takes a copy of the
\* transient buffer's bytes and a terminator
store_output(p, b) ==
    [p EXCEPT !.input = Mem(SubSeq(mock_buffer_get_data(b).bytes, 1, b.size)
                            \o <<0>>),
              !.input_size = b.size,
              !.state = 1]

\* mutant: the transient buffer is asked with the size of the input
transient_capacity_exact(size) == size % SIZE_MOD

\* the capacity mock_parser_parse asks for its transient buffer
transient_capacity(size) == (size * 2) % SIZE_MOD

\* free(parser->input) under if (parser->input)
free_input(p) == IF p.input.null THEN <<>> ELSE <<Ev("free", "input")>>

\* mock_parser_destroy: the allocator calls it makes
mock_parser_destroy(p) ==
    IF ~p.alloc THEN <<>>
    ELSE free_input(p) \o <<Ev("free", "parser")>>

\* mock_parser_parse: ret is -1 or 0, or Diverges when an append never returns
mock_parser_parse(p, input, size, fail) ==
    LET out(ret, q, c, d, l, evs) ==
            [ret |-> ret, parser |-> q, created |-> c, destroyed |-> d,
             oob |-> l.oob, nomem |-> l.nomem, resized |-> l.resized,
             ev |-> evs]
        quiet == [oob |-> FALSE, nomem |-> FALSE, resized |-> 0]
    IN
    IF parse_bad_args(p, input, size)
    THEN out(-1, IF p.alloc THEN [p EXCEPT !.error_code = 1] ELSE p, 0, 0, quiet,
             <<>>)
    ELSE IF mock_validate_input(input, size) # 1
    THEN out(-1, [p EXCEPT !.error_code = 2], 0, 0, quiet, <<>>)
    ELSE
      LET c == mock_buffer_create(transient_capacity(size), fail)
      IN  IF ~c.buf.alloc
          THEN out(-1, [p EXCEPT !.error_code = 3], 0, 0,
                   [quiet EXCEPT !.nomem = c.nomem], Transient(c.ev))
          ELSE
            LET l == parse_loop([ret |-> 0, buf |-> c.buf, oob |-> c.oob,
                                 nomem |-> FALSE, resized |-> 0, ev |-> c.ev],
                                input.bytes, 0, size, fail)
                gone == mock_buffer_destroy(l.buf)
            IN  IF l.ret = Diverges
                THEN out(Diverges, p, 1, 0, l, Transient(l.ev))
                ELSE IF l.ret # 0
                THEN out(-1, [p EXCEPT !.error_code = 4], 1, 1, l,
                         Transient(l.ev \o gone))
                ELSE \* free(parser->input), then the new block is asked for
                  IF ~AllocOk((l.buf.size + 1) % SIZE_MOD, "out", fail)
                  THEN out(-1, [p EXCEPT !.input = Null,
                                         !.input_size = l.buf.size,
                                         !.error_code = 5],
                           1, 1, [l EXCEPT !.nomem = TRUE],
                           Transient(l.ev) \o free_input(p) \o Transient(gone))
                  ELSE out(0, store_output(p, l.buf), 1, 1, l,
                           Transient(l.ev) \o free_input(p)
                           \o <<Ev("malloc", "input")>> \o Transient(gone))

mock_parser_create(fail) ==
    IF ~AllocOk(0, "parser", fail) THEN NoParser
    ELSE [alloc |-> TRUE, state |-> 0, input |-> Null, input_size |-> 0,
          error_code |-> 0]

ParserCreate ==
    /\ fate = "running"
    /\ ~parser.alloc
    /\ \E fail \in {"none", "parser"} :
         \E q \in {mock_parser_create(fail)} :
             /\ parser' = q
             /\ last' = [NoCall EXCEPT !.op = "parser_create",
                                       !.ret = IF q.alloc THEN 1 ELSE 0,
                                       !.nomem = ~q.alloc]
             /\ parsed_ok' = 0
             /\ heap' = replay(heap, IF q.alloc THEN <<Ev("malloc", "parser")>>
                                     ELSE <<>>)
    /\ UNCHANGED <<buffer, written, fate, char_signed>>

\* the allocation failures a parse call can meet: a call that returns before
\* mock_buffer_create asks the allocator for nothing
ParseFails(a) ==
    IF parse_bad_args(parser, a.data, a.size)
       \/ mock_validate_input(a.data, a.size) # 1
    THEN {"none"}
    ELSE {"none", "struct", "data", "realloc", "out"}

ParserParse ==
    /\ fate = "running"
    /\ \E a \in ParseArgs : \E fail \in ParseFails(a) :
            \E r \in {mock_parser_parse(parser, a.data, a.size, fail)} :
                /\ parser' = r.parser
                /\ parsed_ok' = IF r.ret = 0 /\ parsed_ok < MaxTally
                                THEN parsed_ok + 1 ELSE parsed_ok
                /\ last' = [NoCall EXCEPT !.op = "parser_parse", !.data = a.data,
                                          !.size = a.size, !.ret = r.ret,
                                          !.oob = r.oob, !.nomem = r.nomem,
                                          !.created = r.created,
                                          !.destroyed = r.destroyed,
                                          !.resized = r.resized]
                /\ heap' = replay(heap, r.ev)
                /\ fate' \in Outcomes(r.oob, r.ret)
    /\ UNCHANGED <<buffer, written, char_signed>>

ValidateInput ==
    /\ fate = "running"
    /\ \E a \in ValidateArgs :
            last' = [NoCall EXCEPT !.op = "validate_input", !.data = a.data,
                                   !.size = a.size,
                                   !.ret = mock_validate_input(a.data, a.size)]
    /\ UNCHANGED <<buffer, parser, written, parsed_ok, heap, fate, char_signed>>

\* mock_parser_destroy: frees input and the struct; the caller's handle is dead
ParserDestroy ==
    /\ fate = "running"
    /\ parser' = NoParser
    /\ parsed_ok' = 0
    /\ last' = [NoCall EXCEPT !.op = "parser_destroy",
                              !.destroyed = IF parser.alloc THEN 1 ELSE 0]
    /\ heap' = replay(heap, mock_parser_destroy(parser))
    /\ UNCHANGED <<buffer, written, fate, char_signed>>

Init ==
    /\ buffer = NoBuffer
    /\ parser = NoParser
    /\ written = <<>>
    /\ parsed_ok = 0
    /\ heap = EmptyHeap
    /\ last = NoCall
    /\ fate = "running"
    /\ char_signed \in BOOLEAN

BufferNext ==
    \/ BufferCreate
    \/ BufferAppend
    \/ BufferResize
    \/ BufferGetData
    \/ BufferDestroy

BufferSpec == Init /\ [][BufferNext]_vars

ParserNext ==
    \/ ParserCreate
    \/ ParserParse
    \/ ParserDestroy

ParserSpec == Init /\ [][ParserNext]_vars

\* mock_validate_input called by a client that may hold a buffer and a parser
ValidateNext ==
    \/ ValidateInput
    \/ BufferCreate
    \/ ParserCreate

ValidateSpec == Init /\ [][ValidateNext]_vars

Next == BufferNext \/ ParserNext \/ ValidateInput

Spec == Init /\ [][Next]_vars

\* ---------------------------------------------------------------- properties
Max(a, b) == IF a >= b THEN a ELSE b

\* what the buffer's storage shows to a reader of get_data
View == mock_buffer_get_data(buffer).bytes

\* C1: a successful mock_buffer_create(c) returns a buffer of capacity
\* max(c, 1) and length 0.
C1_CreateCapacityAtLeastOne ==
    (last.op = "buffer_create" /\ last.ret = 1)
        => (buffer.capacity = Max(last.size, 1) /\ buffer.size = 0)

\* C2: a live buffer always has capacity >= length + 1, so the terminator
\* at data[length] lies inside the allocated storage.
C2_CapacityHoldsTerminator ==
    buffer.alloc => (buffer.capacity >= buffer.size + 1
                     /\ Len(buffer.data) >= buffer.size + 1)

\* C3: after successful appends of N bytes in all to a created buffer, the
\* length is N, the capacity at least N + 1, and get_data shows the appended
\* bytes in call order followed by a zero byte at index N.
C3_AppendsConcatenate ==
    (buffer.alloc /\ Len(written) >= 1)
        => /\ buffer.size = Len(written)
           /\ buffer.capacity >= Len(written) + 1
           /\ Len(View) >= Len(written) + 1
           /\ SubSeq(View, 1, Len(written) + 1) = written \o <<0>>
           /\ (last.op = "buffer_get_data" => last.view = Mem(View))

\* C3 witness: get_data after several appends that made the buffer grow
C3_Witness ==
    /\ last.op = "buffer_get_data"
    /\ Len(written) > MaxCount
    /\ 120 \in {written[i] : i \in 1..Len(written)}
    /\ buffer.capacity = 2 * Len(written)

\* C4: mock_buffer_append with non-null data and count 0 on a valid buffer
\* returns 0 and changes nothing.
C4_AppendZeroSucceeds ==
    (last.op = "buffer_append" /\ last.before.alloc /\ ~last.data.null
     /\ last.size = 0)
        => (last.ret = 0 /\ buffer = last.before)

C6_ResizeExact ==
    (last.op = "buffer_resize" /\ last.before.alloc
     /\ last.size > last.before.size /\ ~last.nomem)
        => /\ last.ret = 0
           /\ buffer.capacity = last.size
           /\ Len(buffer.data) = last.size
           /\ buffer.size = last.before.size
           /\ SubSeq(buffer.data, 1, buffer.size)
                = SubSeq(last.before.data, 1, last.before.size)

\* C6 witness: a non-empty buffer shrunk to the smallest capacity allowed
C6_Witness ==
    /\ last.op = "buffer_resize"
    /\ last.ret = 0
    /\ last.before.size >= 2
    /\ last.size < last.before.capacity
    /\ last.size = last.before.size + 1

\* bytes 32..126 are the printable ones
Printable(b) == b >= 32 /\ b <= 126

\* the uppercase of a lowercase ASCII letter, any other byte itself
Upper(b) == IF b >= 97 /\ b <= 122 THEN b - 32 ELSE b

\* the first n bytes of s transformed, with the terminator
Transformed(s, n) == [i \in 1..(n + 1) |-> IF i <= n THEN Upper(s[i]) ELSE 0]

\* the last call was mock_parser_parse on a valid handle with a non-null
\* input of size >= 1
ParsedSpan ==
    /\ last.op = "parser_parse"
    /\ parser.alloc
    /\ ~last.data.null
    /\ last.size >= 1

C9_ValidationRejected ==
    [][(last'.op = "parser_parse" /\ parser.alloc
        /\ ~last'.data.null /\ last'.size >= 1
        /\ \E i \in 1..last'.size : ~Printable(last'.data.bytes[i]))
         => /\ last'.ret = -1
            /\ parser'.error_code = 2
            /\ last'.created = 0
            /\ parser'.state = parser.state
            /\ parser'.input = parser.input
            /\ parser'.input_size = parser.input_size]_vars

\* C9 witness: a high-bit byte after a valid one rejected by a parser that
\* holds a parsed output, in a build where char is unsigned
C9_Witness ==
    /\ ParsedSpan
    /\ last.data.bytes = <<97, 200>>
    /\ ~char_signed
    /\ last.ret = -1
    /\ parser.error_code = 2
    /\ parser.state = 1
    /\ ~parser.input.null

OutputAllocationFailed(call) ==
    /\ call.op = "parser_parse"
    /\ call.created = 1
    /\ call.resized = 0
    /\ call.nomem

\* C11: a parse whose allocation of the new stored output fails returns -1
\* with error_code 5 and leaves the stored output, its recorded length and
\* the state exactly as they were before the call.
C11_OutputFailureKeepsOutput ==
    [][OutputAllocationFailed(last')
         => /\ last'.ret = -1
            /\ parser'.error_code = 5
            /\ parser'.state = parser.state
            /\ parser'.input = parser.input
            /\ parser'.input_size = parser.input_size]_vars

\* C12: the state of a created parser is 0 or 1, and it is 1 exactly when
\* some parse on the handle has succeeded: it starts at 0, only a successful
\* call sets it, no failing call changes it, and it never returns to 0.
C12_ParsedIffSucceeded ==
    /\ parser.state \in {0, 1}
    /\ parser.alloc => (parser.state = 1 <=> parsed_ok >= 1)
    /\ (last.op = "parser_create" /\ last.ret = 1) => parser.state = 0

\* C12 witness: a parse that failed for want of memory after an earlier
\* success, the state still 1
C12_Witness ==
    /\ last.op = "parser_parse"
    /\ last.ret = -1
    /\ last.nomem
    /\ parsed_ok >= 1
    /\ parser.state = 1

\* the blocks the caller's parser handle accounts for
ParserBlocks ==
    (IF parser.alloc THEN {"parser"} ELSE {})
    \cup (IF parser.input.null THEN {} ELSE {"input"})

\* C13: over parser create, parse (on every exit path, allocation failures
\* included) and destroy, no block is freed twice, no live block is lost, the
\* transient buffer is gone when parse returns, and the live blocks are those
\* the handle holds: none after destroy.
C13_ParserBlocksReleasedOnce ==
    fate = "running"
        => /\ ~heap.bad
           /\ ~heap.lost
           /\ heap.live = ParserBlocks
           /\ last.op = "parser_parse" => last.created = last.destroyed
           /\ ~parser.alloc => heap.live = {}

\* C13 witness: the output allocation failed in a parse after an earlier
\* success: the old output and the transient buffer are released, the parser
\* struct alone is live
C13_Witness ==
    /\ OutputAllocationFailed(last)
    /\ last.destroyed = 1
    /\ parsed_ok >= 1
    /\ heap.live = {"parser"}
    /\ ~heap.bad

\* C14: a mock_buffer_append that returns -1 (null handle or data, size 0,
\* or the reallocation for growth failed) leaves length, capacity and stored
\* bytes as they were before the call.
C14_FailedAppendKeepsBuffer ==
    (last.op = "buffer_append" /\ last.ret = -1) => buffer = last.before

\* C14 witness: the reallocation failed in an append to a buffer that held bytes
C14_Witness ==
    /\ last.op = "buffer_append"
    /\ last.ret = -1
    /\ last.nomem
    /\ last.resized = 1
    /\ last.before.size >= 1
    /\ buffer.alloc

\* C15: mock_validate_input(input, size) returns 1 exactly when input is
\* non-null, size >= 1 and every byte of input[0..size) is in [32,126], and 0
\* otherwise; the call changes no buffer, no parser and no allocation.
C15_ValidatePureAndExact ==
    [][last'.op = "validate_input"
        => /\ last'.ret \in {0, 1}
           /\ last'.ret = 1
                <=> /\ ~last'.data.null
                    /\ last'.size >= 1
                    /\ \A i \in 1..last'.size : Printable(last'.data.bytes[i])
           /\ buffer' = buffer
           /\ parser' = parser
           /\ heap' = heap]_vars

\* C15 witness: a span of the largest size was accepted while a buffer and a
\* parser were live
C15_Witness ==
    /\ last.op = "validate_input"
    /\ last.ret = 1
    /\ last.size = MaxInput
    /\ buffer.alloc
    /\ parser.alloc

\* C16: a successful mock_buffer_append of count >= 1 bytes to a buffer of
\* length L and capacity C keeps the capacity C when L + count + 1 <= C, and
\* otherwise makes it C * 2^k for the smallest k >= 1 with
\* C * 2^k >= L + count + 1, by one reallocation.
C16_GrowthByDoubling ==
    (last.op = "buffer_append" /\ last.ret = 0 /\ last.size >= 1)
        => LET L == last.before.size
               C == last.before.capacity
               need == L + last.size + 1
           IN  IF need <= C
               THEN buffer.capacity = C /\ last.resized = 0
               ELSE /\ last.resized = 1
                    /\ \E k \in 1..SizeBits :
                         /\ C * 2 ^ k >= need
                         /\ \A j \in 1..(k - 1) : C * 2 ^ j < need
                         /\ buffer.capacity = C * 2 ^ k

\* C16 witness: one append that needed two doublings
C16_Witness ==
    /\ last.op = "buffer_append"
    /\ last.ret = 0
    /\ last.resized = 1
    /\ last.before.capacity >= 1
    /\ buffer.capacity = 4 * last.before.capacity

\* C17: mock_buffer_append returns (0 or -1) for every buffer got from a
\* successful mock_buffer_create of any capacity >= 0 and any appends and
\* resizes, and every count >= 1: the doubling loop ends.
C17_AppendTerminates ==
    (last.op = "buffer_append" /\ last.before.alloc /\ last.size >= 1)
        => (last.ret \in {0, -1} /\ fate # "hung")

\* C18: in mock_parser_parse the transient buffer of capacity 2 * size never
\* grows: no append of the loop asks for a reallocation, writes outside the
\* storage or hangs, and error code 4 is never set.
C18_TransientNeverGrows ==
    /\ parser.error_code # 4
    /\ last.op = "parser_parse"
         => /\ last.resized = 0
            /\ ~last.oob
            /\ last.ret \in {0, -1}
            /\ fate = "running"

\* C18 witness: an input of the largest size went through all its appends
C18_Witness ==
    /\ last.op = "parser_parse"
    /\ last.ret = 0
    /\ last.created = 1
    /\ last.size = MaxInput
    /\ parser.input_size = MaxInput

\* the error a failed parse call on a valid handle stands for, read off the
\* call: arguments, validation, then which step of the work failed
Classification(call) ==
    IF call.data.null \/ call.size = 0 THEN 1
    ELSE IF \E i \in 1..call.size : ~Printable(call.data.bytes[i]) THEN 2
    ELSE IF call.created = 0 THEN 3
    ELSE IF call.resized > 0 THEN 4
    ELSE 5

\* C19: errorCode is 0 after create, a failing mock_parser_parse on a valid
\* handle sets it to the classification of that failure, and a successful
\* parse leaves it as it was: it always tells the most recent failure.
C19_ErrorCodeSticky ==
    [][/\ (last'.op = "parser_create" /\ last'.ret = 1)
            => parser'.error_code = 0
       /\ (last'.op = "parser_parse" /\ parser.alloc)
            => parser'.error_code = IF last'.ret = 0 THEN parser.error_code
                                    ELSE Classification(last')]_vars

\* C19 witness: a parse succeeded and the code of an earlier validation
\* failure is still there
C19_Witness ==
    /\ last.op = "parser_parse"
    /\ last.ret = 0
    /\ parser.state = 1
    /\ parser.error_code = 2

====
